---- MODULE Spec2Model ----
(***************************************************************************)
(* Mesh generation and stitching of rashrasa/rover, src/core/geometry.rs:  *)
(* Face::from_function, EdgeJoin::new and Shape3::new; the mesh storage of *)
(* src/render/mesh.rs: MeshStorage::add_mesh; the instance storage of      *)
(* src/render/instance.rs; and the hooks that App of src/render/app.rs     *)
(* runs on its systems.                                                    *)
(*                                                                         *)
(* Numbers.  An f32 is modelled by an exact extended rational <<n, d>>:    *)
(* d > 0 and gcd(n, d) = 1 for a finite value, <<1, 0>> and <<-1, 0>> for  *)
(* +inf and -inf, <<0, 0>> for NaN.  Rounding of finite results is not     *)
(* modelled; the IEEE rules for the non-finite values are.  A square root  *)
(* that is no rational is rounded down to RootBits binary places.         *)
(* A u16 is an integer in 0 .. 2^16 - 1; an overflowing u16 addition or    *)
(* multiplication panics in a build with overflow checks (debug) and wraps *)
(* modulo 2^16 in a build without them (release).                          *)
(***************************************************************************)
EXTENDS Integers, Sequences, FiniteSets, TLC

\* ------------------------------------------------------------------ bounds
\* At most this many faces are passed to Shape3::new.
MaxFaces == 2
\* The loops of all joins passed to one Shape3::new call hold at most this
\* many elements together.
MaxEdgeTotal == 4
\* The same, for the face lists of more than 2^16 vertices.
LargeEdgeTotal == 2
\* from_function is called with resolutions of at most this many vertices
\* per unit length (and once with LargeResolution).
MaxGrid == 3
\* At most this many meshes are offered to one MeshStorage.
MaxAdds == 3
\* A square root that is no rational keeps this many binary places.
RootBits == 6

\* ----------------------------------------------------------- u16 arithmetic
\* Width of a mesh index (Vec<u16>).
IndexBits == 16

U16 == 2^IndexBits

\* `x as u16` of an unsigned integer: truncation.
AsU16(x) == x % U16

\* ------------------------------------------------------ extended rationals
RECURSIVE GCD(_, _)
GCD(a, b) == IF b = 0 THEN a ELSE GCD(b, a % b)

Abs(a) == IF a < 0 THEN -a ELSE a

Sign(a) == IF a < 0 THEN -1 ELSE IF a > 0 THEN 1 ELSE 0

\* The value n/d (d may be negative or 0) in canonical form.
Rat(n, d) ==
  IF d = 0 THEN <<Sign(n), 0>>
  ELSE LET g == GCD(Abs(n), Abs(d))
       IN  <<Sign(d) * (n \div g), Abs(d) \div g>>

R(n) == <<n, 1>>

NaN == <<0, 0>>

IsNaN(a) == a = NaN

IsFinite(a) == a[2] # 0

RNeg(a) == <<-a[1], a[2]>>

\* The sum is taken over the least common denominator and the product
\* with the common factors cancelled, which keeps the integers small.
RAdd(a, b) ==
  IF IsFinite(a) /\ IsFinite(b)
  THEN LET g == GCD(a[2], b[2])
       IN  Rat(a[1] * (b[2] \div g) + b[1] * (a[2] \div g), (a[2] \div g) * b[2])
  ELSE IF IsNaN(a) \/ IsNaN(b) THEN NaN
  ELSE IF IsFinite(a) THEN b
  ELSE IF IsFinite(b) THEN a
  ELSE IF a = b THEN a ELSE NaN

RSub(a, b) == RAdd(a, RNeg(b))

RMul(a, b) ==
  IF IsFinite(a) /\ IsFinite(b)
  THEN LET g == GCD(Abs(a[1]), b[2])
           h == GCD(Abs(b[1]), a[2])
       IN  Rat((a[1] \div g) * (b[1] \div h), (a[2] \div h) * (b[2] \div g))
  ELSE IF IsNaN(a) \/ IsNaN(b) THEN NaN
  ELSE <<Sign(a[1]) * Sign(b[1]), 0>>

\* a / b; a zero divisor is +0.0 wherever the code divides.
RDiv(a, b) ==
  IF IsNaN(a) \/ IsNaN(b) THEN NaN
  ELSE IF IsFinite(a) /\ IsFinite(b)
  THEN IF b[1] = 0 THEN <<Sign(a[1]), 0>>
       ELSE LET g == GCD(Abs(a[1]), Abs(b[1]))
                h == GCD(a[2], b[2])
            IN  Rat((a[1] \div g) * (b[2] \div h), (a[2] \div h) * (b[1] \div g))
  ELSE IF IsFinite(a) THEN R(0)
  ELSE IF IsFinite(b) THEN <<a[1] * (IF b[1] < 0 THEN -1 ELSE 1), 0>>
  ELSE NaN

\* a <= b as f32 compares: false when either is NaN.
RLe(a, b) ==
  IF IsNaN(a) \/ IsNaN(b) THEN FALSE
  ELSE IF IsFinite(a) /\ IsFinite(b) THEN a[1] * b[2] <= b[1] * a[2]
  ELSE IF ~IsFinite(a) THEN a[1] < 0 \/ a = b
  ELSE b[1] > 0

\* `a.floor() as u32`: the cast saturates, so NaN and every negative value
\* give 0 (+inf gives u32::MAX, which no input of the model produces).
FloorAsU32(a) ==
  IF IsNaN(a) \/ a[1] <= 0 THEN 0
  ELSE IF IsFinite(a) THEN a[1] \div a[2]
  ELSE 2^30

\* ----------------------------------------------------------------- vectors
Vec3(x, y, z) == <<x, y, z>>

VAdd(u, v) == <<RAdd(u[1], v[1]), RAdd(u[2], v[2]), RAdd(u[3], v[3])>>

VSub(u, v) == <<RSub(u[1], v[1]), RSub(u[2], v[2]), RSub(u[3], v[3])>>

VScale(s, v) == <<RMul(s, v[1]), RMul(s, v[2]), RMul(s, v[3])>>

VNeg(v) == <<RNeg(v[1]), RNeg(v[2]), RNeg(v[3])>>

Dot(u, v) == RAdd(RAdd(RMul(u[1], v[1]), RMul(u[2], v[2])), RMul(u[3], v[3]))

Cross(u, v) ==
  << RSub(RMul(u[2], v[3]), RMul(u[3], v[2])),
     RSub(RMul(u[3], v[1]), RMul(u[1], v[3])),
     RSub(RMul(u[1], v[2]), RMul(u[2], v[1])) >>

\* magnitude2: the squared length.  magnitude() is its square root, so two
\* magnitudes compare as their squares do.
Magnitude2(v) == Dot(v, v)

\* PartialEq of two vectors: componentwise f32 equality (NaN equals nothing).
VEq(u, v) == u = v /\ \A c \in 1..3 : ~IsNaN(u[c])

\* The greatest s in low .. high with s * s <= n.
RECURSIVE RootBetween(_, _, _)
RootBetween(n, low, high) ==
  IF low >= high THEN low
  ELSE LET mid == (low + high + 1) \div 2
       IN  IF mid * mid <= n THEN RootBetween(n, mid, high)
           ELSE RootBetween(n, low, mid - 1)

\* The integer square root, rounded down.
ISqrt(n) == RootBetween(n, 0, IF n < 2^15 THEN n ELSE 2^15)

\* f32::sqrt: exact for the square of a rational, else rounded down to a
\* multiple of 1 / (d * 2^RootBits) for a = n / d.  The root of a negative
\* number is NaN; those of +inf and of NaN are themselves.
RSqrt(a) ==
  IF IsFinite(a) /\ a[1] >= 0
  THEN Rat(ISqrt(a[1] * a[2] * 2^(2 * RootBits)), a[2] * 2^RootBits)
  ELSE IF IsFinite(a) \/ a = <<-1, 0>> THEN NaN
  ELSE a

\* InnerSpace::normalize: v / |v|.
Normalize(v) ==
  LET m == RSqrt(Magnitude2(v))
  IN  <<RDiv(v[1], m), RDiv(v[2], m), RDiv(v[3], m)>>

\* --------------------------------------------------------------- matrices
\* A Matrix3 is the tuple of its three columns, as in cgmath.
Identity3 == << <<R(1), R(0), R(0)>>, <<R(0), R(1), R(0)>>, <<R(0), R(0), R(1)>> >>

MatVec(m, v) ==
  VAdd(VAdd(VScale(v[1], m[1]), VScale(v[2], m[2])), VScale(v[3], m[3]))

MatMul(a, b) == <<MatVec(a, b[1]), MatVec(a, b[2]), MatVec(a, b[3])>>

MatAdd(a, b) == <<VAdd(a[1], b[1]), VAdd(a[2], b[2]), VAdd(a[3], b[3])>>

MatScale(a, s) == <<VScale(s, a[1]), VScale(s, a[2]), VScale(s, a[3])>>

\* A variant with the sign of the third component turned.
get_orthogonal_turned(original) ==
  Vec3(RAdd(original[2], original[3]),
       RSub(original[3], original[1]),
       RAdd(original[1], original[2]))

get_orthogonal(original) ==
  Vec3(RAdd(original[2], original[3]),
       RSub(original[3], original[1]),
       RSub(RNeg(original[1]), original[2]))

\* Matrix3::from_axis_angle(original x orthogonal, PI) with
\* orthogonal = get_orthogonal(original).normalize(): with sin = 0 and
\* cos = -1 that matrix is 2 a a^T - I for the axis a = w / |g|, where
\* g = get_orthogonal(original) and w = original x g.
HalfTurnAbout(original) ==
  LET g  == get_orthogonal(original)
      w  == Cross(original, g)
      m2 == Magnitude2(g)
      col(c) == VSub(VScale(RDiv(RMul(R(2), w[c]), m2), w), Identity3[c])
  IN  <<col(1), col(2), col(3)>>

rotate_to_axis(axis0, original0) ==
  LET axis     == Normalize(axis0)
      original == Normalize(original0)
      v   == Cross(original, axis)
      s2  == Magnitude2(v)
      c   == Dot(original, axis)
      v_x == << Vec3(R(0), v[3], RNeg(v[2])),
                Vec3(RNeg(v[3]), R(0), v[1]),
                Vec3(v[2], RNeg(v[1]), R(0)) >>
  IN  IF VEq(axis, VNeg(original)) THEN HalfTurnAbout(original)
      ELSE IF VEq(axis, original) THEN Identity3
      ELSE MatAdd(MatAdd(Identity3, v_x),
                  MatScale(MatMul(v_x, v_x), RDiv(RSub(R(1), c), s2)))

\* ------------------------------------------------------------------- faces
\* Vertex: the position, the normal and the texture coordinate.
Vertex(position, normal, tex_coords) ==
  [position |-> position, normal |-> normal, tex_coords |-> tex_coords]

\* Face::new: the fields as given, nothing checked.
Face_new(y_up_vertices, indices0, edge_px, edge_nx, edge_pz, edge_nz) ==
  [ vertices |-> y_up_vertices, indices |-> indices0,
    edge_px |-> edge_px, edge_nx |-> edge_nx,
    edge_pz |-> edge_pz, edge_nz |-> edge_nz ]

\* The functions a x + b z + c that approximate_normal is called with, as
\* <<a, b, c>>.
Linear ==
  [ ramp |-> <<R(1), R(0), R(0)>>,
    bank |-> <<R(0), Rat(-3, 2), Rat(1, 2)>>,
    tilt |-> <<R(4), R(4), R(1)>> ]

\* The height functions the callers pass: |_, _| 0.5 and
\* |x, z| 1.0 - x * x - z * z; |_, _| 0.0 of approx_normal_test; and the
\* linear ones.
Height(height, x, z) ==
  IF height = "flat" THEN Rat(1, 2)
  ELSE IF height = "dome" THEN RSub(RSub(R(1), RMul(x, x)), RMul(z, z))
  ELSE IF height = "level" THEN R(0)
  ELSE RAdd(RAdd(RMul(Linear[height][1], x), RMul(Linear[height][2], z)),
            Linear[height][3])

\* f(x + ex, z + ez) - f(x - ex, z - ez) for the height function f.  The
\* two heights of a step of H / 2 have numerators beyond the integers at
\* hand, so their difference is taken in closed form: 0 for a function that
\* reads neither argument, -4 (x ex + z ez) for the dome,
\* 2 (a ex + b ez) for a x + b z + c, and NaN where x or z is not finite.
Rise(height, x, z, ex, ez) ==
  IF height \in {"flat", "level"} THEN R(0)
  ELSE IF ~IsFinite(x) \/ ~IsFinite(z) THEN NaN
  ELSE IF height = "dome"
  THEN RMul(R(-4), RAdd(RMul(x, ex), RMul(z, ez)))
  ELSE RMul(R(2), RAdd(RMul(Linear[height][1], ex), RMul(Linear[height][2], ez)))

\* const H: f32 = 1e-04.
H == Rat(1, 10000)

\* A variant that crosses the two tangents the other way round.
approximate_normal_down(f, p) ==
  LET dx == RDiv(H, R(2))
      dz == RDiv(H, R(2))
      dy_dx == RDiv(Rise(f, p[1], p[2], dx, R(0)), RMul(R(2), H))
      dy_dz == RDiv(Rise(f, p[1], p[2], R(0), dz), RMul(R(2), H))
      grad_dx == Vec3(R(1), dy_dx, R(0))
      grad_dz == Vec3(R(0), dy_dz, R(1))
  IN  Normalize(Cross(grad_dx, grad_dz))

\* approximate_normal: the two tangents from the differences of f over a
\* step of H / 2 to either side, and the unit vector of their cross product.
approximate_normal(f, p) ==
  LET dx == RDiv(H, R(2))
      dz == RDiv(H, R(2))
      dy_dx == RDiv(Rise(f, p[1], p[2], dx, R(0)), RMul(R(2), H))
      dy_dz == RDiv(Rise(f, p[1], p[2], R(0), dz), RMul(R(2), H))
      grad_dx == Vec3(R(1), dy_dx, R(0))
      grad_dz == Vec3(R(0), dy_dz, R(1))
  IN  Normalize(Cross(grad_dx, VNeg(grad_dz)))

\* A variant that counts the rows from 1.
ThisIndexNextRow(g, gi, gk) ==
  [ panic |-> FALSE, val |-> AsU16(gi + (gk + 1) * g.n_x) ]

\* `i as u16 + k as u16 * n_x as u16`: the casts truncate; the product and
\* the sum each panic on overflow with overflow checks and wrap without.
ThisIndex(g, gi, gk) ==
  LET prod == AsU16(gk) * AsU16(g.n_x)
      sum  == AsU16(gi) + AsU16(prod)
  IN  [ panic |-> g.build = "debug" /\ (prod >= U16 \/ sum >= U16),
        val   |-> AsU16(sum) ]

\* The vertex of grid point (gi, gk) at x, z with height y.
GridVertex(g, x, z, y) ==
  Vertex(VAdd(MatVec(g.final_rotation, Vec3(x, R(0), z)), VScale(y, g.up)),
         MatVec(g.final_rotation, approximate_normal(g.height, <<x, z>>)),
         <<RDiv(RSub(x, g.x0), g.length_x), RDiv(RSub(z, g.z0), g.length_z)>>)

GridPoint(g, x, z) == GridVertex(g, x, z, Height(g.height, x, z))

\* A variant that pushes the first triangle of a cell the other way round.
CellIndicesTurned(g, gk, gi, v_up, this_index) ==
  LET last == gi = g.n_x - 1
      up_right == AsU16((gi + 1) + (gk - 1) * g.n_x)
      upper    == AsU16(gi + (gk - 1) * g.n_x)
      left     == AsU16((gi - 1) + gk * g.n_x)
  IN  IF gk > 0 /\ v_up /\ ~last THEN <<upper, up_right, this_index>>
      ELSE IF gk > 0 /\ ~v_up THEN
        (IF ~last THEN <<left, this_index, upper, upper, up_right, this_index>>
         ELSE <<left, this_index, upper>>)
      ELSE <<>>

\* "add indices if possible": what the cell pushes to indices.
CellIndices(g, gk, gi, v_up, this_index) ==
  LET last == gi = g.n_x - 1
      up_right == AsU16((gi + 1) + (gk - 1) * g.n_x)
      upper    == AsU16(gi + (gk - 1) * g.n_x)
      left     == AsU16((gi - 1) + gk * g.n_x)
  IN  IF gk > 0 /\ v_up /\ ~last THEN <<up_right, upper, this_index>>
      ELSE IF gk > 0 /\ ~v_up THEN
        (IF ~last THEN <<left, this_index, upper, up_right, upper, this_index>>
         ELSE <<left, this_index, upper>>)
      ELSE <<>>

\* v_up after the cell.
CellVUp(g, gk, gi, v_up) ==
  LET last == gi = g.n_x - 1
  IN  IF gk > 0 /\ v_up /\ ~last THEN FALSE
      ELSE IF gk > 0 /\ ~v_up THEN last
      ELSE v_up

\* A variant that pushes onto edge_nz where the body inserts in front.
CellPushBehind(g, gk, gi, acc, this_index, vertex) ==
  [ vertices |-> Append(acc.vertices, vertex),
    indices  |-> acc.indices \o CellIndices(g, gk, gi, acc.v_up, this_index),
    edge_nx  |-> IF gi = 0 THEN Append(acc.edge_nx, this_index) ELSE acc.edge_nx,
    edge_px  |-> IF gi = g.n_x - 1 THEN <<this_index>> \o acc.edge_px ELSE acc.edge_px,
    edge_nz  |-> IF gk = 0 THEN Append(acc.edge_nz, this_index) ELSE acc.edge_nz,
    edge_pz  |-> IF gk = g.n_z - 1 THEN Append(acc.edge_pz, this_index)
                 ELSE acc.edge_pz,
    v_up     |-> CellVUp(g, gk, gi, acc.v_up) ]

\* One pass of the inner loop body, for column gi of row gk.  acc is the
\* state of the row so far: what the row appended to vertices and indices,
\* what it put on the edges (in the order it leaves them), and v_up.
CellPush(g, gk, gi, acc, this_index, vertex) ==
  [ vertices |-> Append(acc.vertices, vertex),
    indices  |-> acc.indices \o CellIndices(g, gk, gi, acc.v_up, this_index),
    edge_nx  |-> IF gi = 0 THEN Append(acc.edge_nx, this_index) ELSE acc.edge_nx,
    edge_px  |-> IF gi = g.n_x - 1 THEN <<this_index>> \o acc.edge_px ELSE acc.edge_px,
    edge_nz  |-> IF gk = 0 THEN <<this_index>> \o acc.edge_nz ELSE acc.edge_nz,
    edge_pz  |-> IF gk = g.n_z - 1 THEN Append(acc.edge_pz, this_index)
                 ELSE acc.edge_pz,
    v_up     |-> CellVUp(g, gk, gi, acc.v_up) ]

CellStep(g, gk, gi, acc) ==
  CellPush(g, gk, gi, acc, ThisIndex(g, gi, gk).val,
           GridPoint(g, RAdd(g.x0, RMul(R(gi), g.dx)), RAdd(g.z0, RMul(R(gk), g.dz))))

EmptyGrid ==
  [ vertices |-> <<>>, indices |-> <<>>, edge_nx |-> <<>>, edge_px |-> <<>>,
    edge_nz |-> <<>>, edge_pz |-> <<>>, v_up |-> TRUE ]

\* `for i in 0..n_x`, from column gi on.
RECURSIVE RowFrom(_, _, _, _)
RowFrom(g, gk, gi, acc) ==
  IF gi >= g.n_x THEN acc
  ELSE RowFrom(g, gk, gi + 1, CellStep(g, gk, gi, acc))

\* A variant that puts a row's part of edge_px behind what is there.
MergeRowBehind(acc, row) ==
  [ vertices |-> acc.vertices \o row.vertices,
    indices  |-> acc.indices \o row.indices,
    edge_nx  |-> acc.edge_nx \o row.edge_nx,
    edge_px  |-> acc.edge_px \o row.edge_px,
    edge_nz  |-> row.edge_nz \o acc.edge_nz,
    edge_pz  |-> acc.edge_pz \o row.edge_pz,
    v_up     |-> TRUE ]

\* Every row starts with v_up = true (the initial value, then the reset that
\* ends each row), so a row's pushes and inserts are computed on their own
\* and then put onto the buffers: pushes behind what is there,
\* insert(0, _) in front of it.
MergeRow(acc, row) ==
  [ vertices |-> acc.vertices \o row.vertices,
    indices  |-> acc.indices \o row.indices,
    edge_nx  |-> acc.edge_nx \o row.edge_nx,
    edge_px  |-> row.edge_px \o acc.edge_px,
    edge_nz  |-> row.edge_nz \o acc.edge_nz,
    edge_pz  |-> acc.edge_pz \o row.edge_pz,
    v_up     |-> TRUE ]

\* `for k in 0..n_z`, from row gk on.
RECURSIVE GridFrom(_, _, _)
GridFrom(g, gk, acc) ==
  IF gk >= g.n_z THEN acc
  ELSE GridFrom(g, gk + 1, MergeRow(acc, RowFrom(g, gk, 0, EmptyGrid)))

Y_UP == Vec3(R(0), R(1), R(0))

\* "expected vertices": length * resolution along one axis.
ExpectedCount(domain, resolution) == RMul(RSub(domain[2], domain[1]), resolution)

\* "actual vertices": n_x, n_z.
ActualCount(domain, resolution) == FloorAsU32(ExpectedCount(domain, resolution))

\* dx, dz: the nominal spacing plus the correction for the floored remainder.
Spacing(domain, resolution) ==
  LET length == RSub(domain[2], domain[1])
      e == ExpectedCount(domain, resolution)
      n == ActualCount(domain, resolution)
      extra == RMul(RSub(e, R(n)), resolution)
      correction == RDiv(extra, R(n - 1))
  IN  RAdd(RDiv(length, R(n - 1)), correction)

\* The loops stop early only by a panic of the index arithmetic, and they
\* reach every grid point unless one panics.
GridPanics(g) ==
  \E gk \in 0..(g.n_z - 1) : \E gi \in 0..(g.n_x - 1) : ThisIndex(g, gi, gk).panic

GridResult(g, grid) ==
  [ tag |-> "Ok",
    face |-> [ vertices |-> grid.vertices, indices |-> grid.indices,
               edge_px |-> grid.edge_px, edge_nx |-> grid.edge_nx,
               edge_pz |-> grid.edge_pz, edge_nz |-> grid.edge_nz ] ]

GridRun(g) ==
  IF GridPanics(g) THEN [tag |-> "Panic"]
  ELSE GridResult(g, GridFrom(g, 0, EmptyGrid))

GridContext(buildmode, up, domain_x, domain_z, resolution, height) ==
  [ build |-> buildmode, up |-> up, height |-> height,
    n_x |-> ActualCount(domain_x, resolution[1]),
    n_z |-> ActualCount(domain_z, resolution[2]),
    x0 |-> domain_x[1], z0 |-> domain_z[1],
    length_x |-> RSub(domain_x[2], domain_x[1]),
    length_z |-> RSub(domain_z[2], domain_z[1]),
    dx |-> Spacing(domain_x, resolution[1]),
    dz |-> Spacing(domain_z, resolution[2]),
    final_rotation |-> rotate_to_axis(up, Y_UP) ]

\* Face::from_function.  The result is [tag |-> "Ok", face |-> _], the
\* returned error [tag |-> "Err"] or the abort [tag |-> "Panic"].
from_function(buildmode, up, domain_x, domain_z, resolution, height) ==
  IF ActualCount(domain_x, resolution[1]) = 0 \/ ActualCount(domain_z, resolution[2]) = 0
  THEN [tag |-> "Err"]
  ELSE GridRun(GridContext(buildmode, Normalize(up), domain_x, domain_z, resolution, height))

\* --------------------------------------------------------------- EdgeJoin
\* A variant that also refuses an empty edge.
EdgeJoin_new_NonEmpty(edge_lower, lower_face_index, edge_higher, higher_face_index) ==
  IF lower_face_index = higher_face_index \/ edge_lower = <<>> \/ edge_higher = <<>>
  THEN [tag |-> "Err"]
  ELSE [ tag |-> "Ok",
         join |-> [ edge_lower |-> edge_lower, lower_face_index |-> lower_face_index,
                    edge_higher |-> edge_higher, higher_face_index |-> higher_face_index ] ]

\* EdgeJoin::new.  [tag |-> "Ok", join |-> _] or the returned error.
EdgeJoin_new(edge_lower, lower_face_index, edge_higher, higher_face_index) ==
  IF lower_face_index = higher_face_index THEN [tag |-> "Err"]
  ELSE [ tag |-> "Ok",
         join |-> [ edge_lower |-> edge_lower, lower_face_index |-> lower_face_index,
                    edge_higher |-> edge_higher, higher_face_index |-> higher_face_index ] ]

\* ----------------------------------------------------------------- Shape3
\* x + y on u16: the wrapped sum, and whether the sum overflowed.
AddU16(x, y) == [overflow |-> x + y >= U16, val |-> AsU16(x + y)]

\* `face_index_start[face_index] + edge[pos]`: both subscripts are checked
\* (a usize below 0 does not exist: `i - 1` at i = 0 panics or wraps to a
\* subscript out of range), then the sum is taken.
Translate(fis, face_index, edge, pos) ==
  IF face_index >= Len(fis) \/ pos < 0 \/ pos >= Len(edge)
  THEN [oob |-> TRUE, overflow |-> FALSE, val |-> 0]
  ELSE [ oob |-> FALSE,
         overflow |-> AddU16(fis[face_index + 1], edge[pos + 1]).overflow,
         val |-> AddU16(fis[face_index + 1], edge[pos + 1]).val ]

\* A variant that puts the face's vertices in front of the buffer.
ExtendVerticesInFront(buffer, face) == face.vertices \o buffer

\* `vertices.extend(face.vertices.iter())`.
ExtendVertices(buffer, face) == buffer \o face.vertices

\* A variant that adds no offset.
OffsetIndicesNone(face_indices, offset) ==
  [ overflow |-> FALSE, val |-> face_indices ]

\* A variant that adds the offset twice.
OffsetIndicesTwice(face_indices, offset) ==
  [ overflow |-> FALSE,
    val      |-> [n \in 1..Len(face_indices) |-> AsU16(face_indices[n] + 2 * offset)] ]

\* `indices.extend(face.indices.iter().map(|index| index + start))`.
OffsetIndices(face_indices, offset) ==
  [ overflow |-> \E n \in 1..Len(face_indices) : AddU16(face_indices[n], offset).overflow,
    val      |-> [n \in 1..Len(face_indices) |-> AddU16(face_indices[n], offset).val] ]

\* A variant that advances i in every pass.
AdvanceIAlways(verts, l_n, h_n, pi, pj, l, h, l_next, h_next) == TRUE

\* A variant in which a tie advances i.
AdvanceITies(verts, l_n, h_n, pi, pj, l, h, l_next, h_next) ==
  IF pi = l_n - 1 THEN FALSE
  ELSE IF pj = h_n - 1 THEN TRUE
  ELSE RLe(Magnitude2(VSub(verts[h + 1].position, verts[l_next + 1].position)),
           Magnitude2(VSub(verts[l + 1].position, verts[h_next + 1].position)))

\* "determine what counter to advance": TRUE when i advances, FALSE when j
\* does.  l, h, l_next, h_next are the translated lower[i], higher[j],
\* lower[i+1], higher[j+1]; the last two are read only in the third branch.
AdvanceI(verts, l_n, h_n, pi, pj, l, h, l_next, h_next) ==
  IF pi = l_n - 1 THEN FALSE
  ELSE IF pj = h_n - 1 THEN TRUE
  ELSE ~RLe(Magnitude2(VSub(verts[l + 1].position, verts[h_next + 1].position)),
            Magnitude2(VSub(verts[h + 1].position, verts[l_next + 1].position)))

\* A variant that pushes a triangle in the first pass too.
StitchPushAlways(joins, h_idx, l_idx, prev) == <<h_idx, l_idx, prev>>

\* A variant that pushes the lower vertex twice.
StitchPushNoPrev(joins, h_idx, l_idx, prev) ==
  IF joins THEN <<h_idx, l_idx, l_idx>> ELSE <<>>

\* A variant that pushes the lower vertex first.
StitchPushFlipped(joins, h_idx, l_idx, prev) ==
  IF joins THEN <<l_idx, h_idx, prev>> ELSE <<>>

\* "join": the triangle a pass pushes, none in the first pass (i + j = 0).
StitchPush(joins, h_idx, l_idx, prev) ==
  IF joins THEN <<h_idx, l_idx, prev>> ELSE <<>>

\* One pass of the body of `for _ in 0..l_n + h_n - 1`, the sums wrapped.
\* panic: a subscript out of range stops the pass.  overflow: a sum the pass
\* takes overflowed.
StitchBody(fis, verts, jn, pi, pj, up) ==
  LET l_n == Len(jn.edge_lower)
      h_n == Len(jn.edge_higher)
      l_idx == Translate(fis, jn.lower_face_index, jn.edge_lower, pi)
      h_idx == Translate(fis, jn.higher_face_index, jn.edge_higher, pj)
      prev  == IF up THEN Translate(fis, jn.lower_face_index, jn.edge_lower, pi - 1)
               ELSE Translate(fis, jn.higher_face_index, jn.edge_higher, pj - 1)
      l_next == Translate(fis, jn.lower_face_index, jn.edge_lower, pi + 1)
      h_next == Translate(fis, jn.higher_face_index, jn.edge_higher, pj + 1)
      joins  == pi + pj > 0
      looks  == pi # l_n - 1 /\ pj # h_n - 1
      panics ==
        \/ l_idx.oob \/ h_idx.oob
        \/ l_idx.val >= Len(verts) \/ h_idx.val >= Len(verts)
        \/ (joins /\ prev.oob)
        \/ (looks /\ (l_next.oob \/ l_next.val >= Len(verts)))
        \/ (looks /\ (h_next.oob \/ h_next.val >= Len(verts)))
      adv == AdvanceI(verts, l_n, h_n, pi, pj, l_idx.val, h_idx.val, l_next.val, h_next.val)
  IN  IF panics THEN [panic |-> TRUE, overflow |-> FALSE]
      ELSE [ panic |-> FALSE,
             overflow |-> \/ l_idx.overflow \/ h_idx.overflow
                          \/ (joins /\ prev.overflow)
                          \/ (looks /\ (l_next.overflow \/ h_next.overflow)),
             pushed |-> StitchPush(joins, h_idx.val, l_idx.val, prev.val),
             i |-> IF adv THEN pi + 1 ELSE pi,
             j |-> IF adv THEN pj ELSE pj + 1,
             i_up |-> adv ]

\* ------------------------------------------------------------------ inputs
BuildModes == {"debug", "release"}

Half == Rat(1, 2)

\* A vertex of a face assembled by hand.
P(x, y, z) ==
  Vertex(Vec3(R(x), R(y), R(z)), Vec3(R(0), R(1), R(0)), <<R(0), R(0)>>)

\* The top face of the cube of main.rs at resolution 2: a 2 x 2 grid over
\* (-0.5, 0.5) x (-0.5, 0.5).
Grid22 ==
  from_function("release", Y_UP, <<RNeg(Half), Half>>, <<RNeg(Half), Half>>,
                <<R(2), R(2)>>, "flat").face

\* A 1 x 1 grid: its one vertex has no finite position.
Grid11 ==
  from_function("release", Y_UP, <<R(0), R(1)>>, <<R(0), R(1)>>,
                <<R(1), R(1)>>, "flat").face

\* Faces assembled with Face::new: a triangle, and a face whose index list
\* names a vertex (3) it does not have.
Tri == Face_new(<<P(0, 0, 0), P(2, 0, 0), P(0, 0, 2)>>, <<0, 1, 2>>,
                <<1>>, <<0, 2>>, <<2, 1>>, <<1, 0>>)

Loose == Face_new(<<P(0, 1, 0), P(2, 1, 0), P(0, 1, 2)>>, <<0, 1, 2, 2, 1, 3>>,
                  <<1>>, <<0, 2>>, <<2, 1>>, <<1, 0>>)

\* Faces of 2^16 - 1 and of 2^16 vertices.
Large(n) ==
  Face_new([c \in 1..n |-> P(0, 0, 0)], <<0, 1, n - 1>>, <<0>>, <<0>>, <<0>>, <<0>>)

SmallFaces == {Grid22, Grid11, Loose}

RECURSIVE SeqsUpTo(_, _)
SeqsUpTo(S, n) ==
  IF n = 0 THEN {<<>>}
  ELSE LET shorter == SeqsUpTo(S, n - 1)
       IN  shorter \cup {Append(q, e) : q \in {r \in shorter : Len(r) = n - 1}, e \in S}

FaceLists == SeqsUpTo(SmallFaces, MaxFaces)

LargeFaceLists ==
  { <<Large(U16 - 1), Tri>>, <<Large(U16), Tri>>, <<Tri, Large(U16 - 1)>> }

\* The loops a join may hold: the edges the sphere of main.rs joins, edge_px of
\* one 2 x 2 grid and edge_nx of the next, cut or run on to m elements.
SampleEdges == { <<3, 1>>, <<0, 2>> }

Cycle(edge, m) == [p \in 1..m |-> edge[((p - 1) % Len(edge)) + 1]]

Loops(n) == { Cycle(edge, m) : edge \in SampleEdges, m \in 0..n }

\* The joins EdgeJoin::new builds whose loops hold f elements together.
JoinsOfSize(f) ==
  LET edges == Loops(f)
      loops == { lh \in edges \X edges : Len(lh[1]) + Len(lh[2]) = f }
      made  == { EdgeJoin_new(lh[1], lo, lh[2], hi) :
                   lh \in loops, lo \in 0..MaxFaces, hi \in 0..MaxFaces }
  IN  { r.join : r \in { m \in made : m.tag = "Ok" } }

JoinsBySize == [f \in 0..(MaxEdgeTotal + 1) |-> JoinsOfSize(f)]

\* Those whose loops hold at most f elements.
JoinChoices(f) == UNION { JoinsBySize[n] : n \in 0..f }

\* The calls of Face::from_function: the up vector of the callers and its
\* opposite, a unit domain, a reversed and an empty one, resolutions that
\* floor to 0, that leave a remainder, and whole ones.
Ups == {Y_UP, VNeg(Y_UP)}

Domains == { <<RNeg(Half), Half>>, <<R(1), R(0)>>, <<R(0), R(0)>> }

Resolutions == {Half, Rat(5, 2)} \cup { R(n) : n \in 1..MaxGrid }

Heights == {"flat", "dome"}

\* The least grid whose row offset k * n_x does not fit a u16: 2^8 columns
\* and 2^8 + 1 rows.  It is called with overflow checks, where the call
\* stops at that product.
LargeResolution == << R(2^(IndexBits \div 2)), R(2^(IndexBits \div 2) + 1) >>

FaceCalls ==
  { [ fn |-> "from_function", build |-> b, up |-> u, domain_x |-> dx,
      domain_z |-> dz, resolution |-> <<rx, rz>>, height |-> h ] :
      b \in BuildModes, u \in Ups, dx \in Domains, dz \in Domains,
      rx \in Resolutions, rz \in Resolutions, h \in Heights }
  \cup
  { [ fn |-> "from_function", build |-> "debug", up |-> Y_UP,
      domain_x |-> <<RNeg(Half), Half>>, domain_z |-> <<RNeg(Half), Half>>,
      resolution |-> LargeResolution, height |-> "flat" ] }

\* The calls of EdgeJoin::new.
JoinCalls ==
  { [ fn |-> "EdgeJoin_new", edge_lower |-> l, lower_face_index |-> lo,
      edge_higher |-> h, higher_face_index |-> hi ] :
      l \in Loops(MaxEdgeTotal), lo \in 0..MaxFaces,
      h \in Loops(MaxEdgeTotal), hi \in 0..MaxFaces }

\* The calls of approximate_normal: the height functions, at points about
\* the origin.
NormalHeights == {"level", "flat", "dome"} \cup DOMAIN Linear

SamplePoints == { R(0), Half, R(-1) }

NormalCalls ==
  { [ fn |-> "approximate_normal", height |-> h, p |-> <<x, z>> ] :
      h \in NormalHeights, x \in SamplePoints, z \in SamplePoints }

\* Unit vectors with rational components: the axes of the tests, their
\* opposites, and two more.
Units ==
  { Vec3(R(1), R(0), R(0)), Vec3(R(0), R(1), R(0)), Vec3(R(0), R(0), R(1)),
    Vec3(R(-1), R(0), R(0)), Vec3(R(0), R(-1), R(0)), Vec3(R(0), R(0), R(-1)),
    Vec3(Rat(3, 5), Rat(4, 5), R(0)), Vec3(Rat(2, 3), Rat(-2, 3), Rat(1, 3)) }

\* The diagonals of the tests, which the callee brings to unit length.
Diagonals ==
  { Vec3(R(1), R(1), R(1)), Vec3(R(-1), R(1), R(1)), Vec3(R(1), R(-1), R(1)),
    Vec3(R(1), R(1), R(-1)) }

\* The calls of rotate_to_axis: every pair of the unit vectors, and every
\* diagonal and its opposite to itself and to each other.
RotateCalls ==
  { [ fn |-> "rotate_to_axis", axis |-> a, original |-> o ] :
      a \in Units, o \in Units }
  \cup
  { [ fn |-> "rotate_to_axis", axis |-> VScale(R(t), VScale(R(u), d)),
      original |-> VScale(R(u), d) ] :
      d \in Diagonals, t \in {-1, 1}, u \in {-1, 1} }

\* The calls of get_orthogonal: the vectors with components -1, 0 and 1,
\* and the unit vectors.
OrthogonalCalls ==
  { [ fn |-> "get_orthogonal", original |-> Vec3(R(x), R(y), R(z)) ] :
      x \in -1..1, y \in -1..1, z \in -1..1 }
  \cup { [ fn |-> "get_orthogonal", original |-> u ] : u \in Units }

\* ------------------------------------------------------------------- state
VARIABLES
  overflow_checks,   \* "unknown", and "off" once a u16 sum has wrapped
  faces,             \* Shape3::new: the face list
  face_joins,        \* the joins `for join in face_joins` has taken so far
  empty_edge,        \* whether the join list holds a join with an empty edge
  fuel,              \* how many loop elements further joins may still hold
  pc,                \* "merge", "join", "stitch", "done"; "idle" outside Shape3::new
  face_index_start, vertices, indices, start,
  face_i,            \* `for i in 0..faces.len()`
  join,              \* the join being stitched
  i, j, i_up,
  step,              \* `for _ in 0..l_n + h_n - 1`
  result,            \* "none", then "Ok", "Err" or "Panic"
  call_args,         \* the last call of a function: its arguments
  call_result,       \* and its result
  map,               \* MeshStorage: id -> (vertex start, end, index start, end)
  vertex_storage, index_storage,
  adds,              \* how many meshes have been offered to the storage
  returned,          \* the meshes stored, in call order, with the id returned
  data,              \* InstanceStorage: the instances, by position
  latest,            \* entity id -> the instance of its most recent upsert
  state,             \* App: "NeedsInit" or "Started"
  systems,           \* App: the systems, in order
  exiting,           \* whether event_loop.exit() has been called
  hooks,             \* the hooks run so far: hook, system and number of the event
  delivered          \* the events delivered to App so far

vars == << overflow_checks, faces, face_joins, empty_edge, fuel, pc,
           face_index_start, vertices, indices, start, face_i, join, i, j,
           i_up, step, result, call_args, call_result, map, vertex_storage,
           index_storage, adds, returned, data, latest, state, systems,
           exiting, hooks, delivered >>

shape_vars == << overflow_checks, faces, face_joins, empty_edge, fuel, pc,
                 face_index_start, vertices, indices, start, face_i, join, i,
                 j, i_up, step, result >>

call_vars == << call_args, call_result >>

storage_vars == << map, vertex_storage, index_storage, adds, returned >>

instance_vars == << data, latest >>

app_vars == << state, systems, exiting, hooks, delivered >>

NoJoin == [ edge_lower |-> <<>>, lower_face_index |-> 0,
            edge_higher |-> <<>>, higher_face_index |-> 0 ]

NoCall == [fn |-> "none"]

NoResult == [tag |-> "none"]

\* MeshStorage::new(): nothing stored.
MeshStorage_new ==
  /\ map = <<>>
  /\ vertex_storage = <<>> /\ index_storage = <<>>
  /\ adds = 0
  /\ returned = <<>>

\* InstanceStorage::new(device): no instance.
InstanceStorage_new ==
  /\ data = <<>>
  /\ latest = <<>>

\* prefabs::DEFAULT_SYSTEMS().
DEFAULT_SYSTEMS ==
  << "CollisionsSystem", "MetricsSystem", "AudioSystem", "DynamicsSystem" >>

\* App::new(width, height, seed): not started, the default systems.
App_new ==
  /\ state = "NeedsInit"
  /\ systems = DEFAULT_SYSTEMS
  /\ exiting = FALSE
  /\ hooks = <<>>
  /\ delivered = <<>>

\* Entry of Shape3::new(faces, face_joins).
ShapeEntry(list, budget) ==
  /\ overflow_checks = "unknown"
  /\ faces = list
  /\ face_joins = <<>>
  /\ empty_edge \in BOOLEAN
  /\ fuel = budget
  /\ pc = "merge"
  /\ face_index_start = <<>>
  /\ vertices = <<>>
  /\ indices = <<>>
  /\ start = 0
  /\ face_i = 0
  /\ join = NoJoin
  /\ i = 0 /\ j = 0 /\ i_up = FALSE
  /\ step = 0
  /\ result = "none"

Init ==
  /\ \E list \in FaceLists : ShapeEntry(list, MaxEdgeTotal)
  /\ call_args = NoCall /\ call_result = NoResult
  /\ MeshStorage_new
  /\ InstanceStorage_new
  /\ App_new

Panic ==
  /\ pc' = "done"
  /\ result' = "Panic"
  /\ UNCHANGED << overflow_checks, faces, face_joins, empty_edge, fuel,
                  face_index_start, vertices, indices, start, face_i, join, i,
                  j, i_up, step >>

\* What a pass may do when a u16 sum in it overflows: panic in a build
\* with overflow checks, wrap in a build without.  A sum that has wrapped
\* shows the build to be without.
Outcomes(overflows) ==
  IF ~overflows THEN {"exact"}
  ELSE IF overflow_checks = "unknown" THEN {"panic", "wrap"}
  ELSE {"wrap"}

Checks(outcome) == IF outcome = "wrap" THEN "off" ELSE overflow_checks

\* One pass of `for i in 0..faces.len()`.
MergeFace ==
  /\ pc = "merge"
  /\ face_i < Len(faces)
  /\ LET face  == faces[face_i + 1]
         moved == OffsetIndices(face.indices, start)
         next  == AddU16(start, AsU16(Len(face.vertices)))
     IN  \E outcome \in Outcomes(moved.overflow \/ next.overflow) :
           IF outcome = "panic" THEN Panic
           ELSE /\ face_index_start' = Append(face_index_start, start)
                /\ vertices' = ExtendVertices(vertices, face)
                /\ indices' = indices \o moved.val
                /\ start' = next.val
                /\ face_i' = face_i + 1
                /\ overflow_checks' = Checks(outcome)
                /\ UNCHANGED << faces, face_joins, empty_edge, fuel, pc, join,
                                i, j, i_up, step, result >>
  /\ UNCHANGED << call_vars, storage_vars, instance_vars, app_vars >>

\* The face loop ends; `for join in face_joins` begins.
EndMerge ==
  /\ pc = "merge"
  /\ face_i = Len(faces)
  /\ pc' = "join"
  /\ UNCHANGED << overflow_checks, faces, face_joins, empty_edge, fuel,
                  face_index_start, vertices, indices, start, face_i, join, i,
                  j, i_up, step, result >>
  /\ UNCHANGED << call_vars, storage_vars, instance_vars, app_vars >>

\* `for join in face_joins` takes the next join jn of the list.  A join with
\* an empty edge is in a list that holds one.
TakeJoin(jn) ==
  /\ pc = "join"
  /\ (jn.edge_higher = <<>> \/ jn.edge_lower = <<>>) => empty_edge
  /\ face_joins' = Append(face_joins, jn)
  /\ fuel' = fuel - (Len(jn.edge_lower) + Len(jn.edge_higher))
  /\ IF jn.edge_higher = <<>> \/ jn.edge_lower = <<>>
     THEN /\ pc' = "done"
          /\ result' = "Err"
          /\ UNCHANGED << join, i, j, i_up, step >>
     ELSE /\ pc' = "stitch"
          /\ join' = jn
          /\ i' = 0 /\ j' = 0 /\ i_up' = FALSE
          /\ step' = 0
          /\ UNCHANGED result
  /\ UNCHANGED << overflow_checks, faces, empty_edge, face_index_start,
                  vertices, indices, start, face_i >>
  /\ UNCHANGED << call_vars, storage_vars, instance_vars, app_vars >>

\* The join list is exhausted, and so held no join with an empty edge:
\* Ok(Self { vertices, indices }).
Finish ==
  /\ pc = "join"
  /\ ~empty_edge
  /\ pc' = "done"
  /\ result' = "Ok"
  /\ UNCHANGED << overflow_checks, faces, face_joins, empty_edge, fuel,
                  face_index_start, vertices, indices, start, face_i, join, i,
                  j, i_up, step >>
  /\ UNCHANGED << call_vars, storage_vars, instance_vars, app_vars >>

\* One pass of `for _ in 0..l_n + h_n - 1`.
StitchStep ==
  /\ pc = "stitch"
  /\ LET body == StitchBody(face_index_start, vertices, join, i, j, i_up)
     IN  \E outcome \in Outcomes(body.overflow) :
           IF body.panic \/ outcome = "panic" THEN Panic
           ELSE /\ indices' = indices \o body.pushed
                /\ i' = body.i
                /\ j' = body.j
                /\ i_up' = body.i_up
                /\ step' = step + 1
                /\ pc' = IF step + 1 = Len(join.edge_lower) + Len(join.edge_higher) - 1
                         THEN "join" ELSE "stitch"
                /\ overflow_checks' = Checks(outcome)
                /\ UNCHANGED << faces, face_joins, empty_edge, fuel,
                                face_index_start, vertices, start, face_i,
                                join, result >>
  /\ UNCHANGED << call_vars, storage_vars, instance_vars, app_vars >>

Next ==
  \/ MergeFace
  \/ EndMerge
  \/ pc = "join" /\ \E jn \in JoinChoices(fuel) : TakeJoin(jn)
  \/ Finish
  \/ StitchStep

Spec == Init /\ [][Next]_vars

\* Shape3::new on face lists of more than 2^16 vertices.
InitLarge ==
  /\ \E list \in LargeFaceLists : ShapeEntry(list, LargeEdgeTotal)
  /\ call_args = NoCall /\ call_result = NoResult
  /\ MeshStorage_new
  /\ InstanceStorage_new
  /\ App_new

SpecLarge == InitLarge /\ [][Next]_vars

\* Calls of the functions that keep no state.
ShapeIdle ==
  /\ overflow_checks = "unknown"
  /\ faces = <<>> /\ face_joins = <<>> /\ empty_edge = FALSE /\ fuel = 0
  /\ pc = "idle"
  /\ face_index_start = <<>> /\ vertices = <<>> /\ indices = <<>>
  /\ start = 0 /\ face_i = 0
  /\ join = NoJoin
  /\ i = 0 /\ j = 0 /\ i_up = FALSE
  /\ step = 0
  /\ result = "none"

InitCall ==
  /\ call_args \in FaceCalls \cup JoinCalls \cup NormalCalls \cup RotateCalls
                  \cup OrthogonalCalls
  /\ call_result = NoResult
  /\ ShapeIdle
  /\ MeshStorage_new
  /\ InstanceStorage_new
  /\ App_new

CallFromFunction ==
  /\ call_args.fn = "from_function"
  /\ call_result = NoResult
  /\ call_result' = from_function(call_args.build, call_args.up, call_args.domain_x,
                                  call_args.domain_z, call_args.resolution,
                                  call_args.height)
  /\ UNCHANGED << call_args, shape_vars, storage_vars, instance_vars, app_vars >>

CallEdgeJoinNew ==
  /\ call_args.fn = "EdgeJoin_new"
  /\ call_result = NoResult
  /\ call_result' = EdgeJoin_new(call_args.edge_lower, call_args.lower_face_index,
                                 call_args.edge_higher, call_args.higher_face_index)
  /\ UNCHANGED << call_args, shape_vars, storage_vars, instance_vars, app_vars >>

\* The functions that cannot fail return a value.
Returned(value) == [tag |-> "Returned", value |-> value]

CallApproximateNormal ==
  /\ call_args.fn = "approximate_normal"
  /\ call_result = NoResult
  /\ call_result' = Returned(approximate_normal(call_args.height, call_args.p))
  /\ UNCHANGED << call_args, shape_vars, storage_vars, instance_vars, app_vars >>

CallRotateToAxis ==
  /\ call_args.fn = "rotate_to_axis"
  /\ call_result = NoResult
  /\ call_result' = Returned(rotate_to_axis(call_args.axis, call_args.original))
  /\ UNCHANGED << call_args, shape_vars, storage_vars, instance_vars, app_vars >>

CallGetOrthogonal ==
  /\ call_args.fn = "get_orthogonal"
  /\ call_result = NoResult
  /\ call_result' = Returned(get_orthogonal(call_args.original))
  /\ UNCHANGED << call_args, shape_vars, storage_vars, instance_vars, app_vars >>

NextCall ==
  \/ CallFromFunction
  \/ CallEdgeJoinNew
  \/ CallApproximateNormal
  \/ CallRotateToAxis
  \/ CallGetOrthogonal

SpecCall == InitCall /\ [][NextCall]_vars

\* ------------------------------------------------------------ mesh storage
\* The meshes offered to a storage.  A vertex is opaque to the storage and
\* is a number here.
Empty == [vertices |-> <<>>, indices |-> <<>>]

Point == [vertices |-> <<7>>, indices |-> <<0, 0, 0>>]

Triangle == [vertices |-> <<1, 2, 3>>, indices |-> <<0, 1, 2>>]

OutOfRange == [vertices |-> <<4, 5>>, indices |-> <<0, 1, 2>>]

Bulk(n) == [vertices |-> [k \in 1..n |-> 0], indices |-> <<0, 1, n - 1>>]

Meshes ==
  { Empty, Point, Triangle, OutOfRange, Bulk(U16 - 3), Bulk(U16 - 1),
    Bulk(U16) }

\* The first index of mesh_indices that is no vertex of a mesh of n
\* vertices, or -1: `for i in indices { if i >= n { return Err(..) } }`.
RECURSIVE FirstOutOfBounds(_, _)
FirstOutOfBounds(mesh_indices, n) ==
  IF mesh_indices = <<>> THEN -1
  ELSE IF Head(mesh_indices) >= n THEN Head(mesh_indices)
  ELSE FirstOutOfBounds(Tail(mesh_indices), n)

\* The map with value stored under id: HashMap::insert.
Insert(m, id, value) ==
  [k \in DOMAIN m \cup {id} |-> IF k = id THEN value ELSE m[k]]

\* A variant that stores the vertices before it looks at the indices.
add_mesh_early(self, mesh_vertices, mesh_indices) ==
  LET before_count_vertices == Len(self.vertex_storage)
      before_count_indexes  == Len(self.index_storage)
      n     == Len(mesh_vertices)
      id    == Cardinality(DOMAIN self.map)
      bad   == FirstOutOfBounds(mesh_indices, n)
      moved == OffsetIndices(mesh_indices, AsU16(before_count_vertices))
      vs    == self.vertex_storage \o mesh_vertices
      is    == self.index_storage \o moved.val
  IN  IF before_count_vertices + n > U16 - 1
      THEN [result |-> [tag |-> "Err", error |-> "MaxVerticesExceeded"],
            overflow |-> FALSE, self |-> self]
      ELSE IF bad # -1
      THEN [result |-> [tag |-> "Err", error |-> "IndexOutOfBounds",
                        index |-> bad],
            overflow |-> FALSE,
            self |-> [self EXCEPT !.vertex_storage = vs]]
      ELSE [result |-> [tag |-> "Ok", id |-> id],
            overflow |-> moved.overflow,
            self |-> [map |-> Insert(self.map, id,
                                     << before_count_vertices, Len(vs),
                                        before_count_indexes, Len(is) >>),
                      vertex_storage |-> vs,
                      index_storage |-> is]]

\* MeshStorage::add_mesh on the storage self: the result, the storage it
\* leaves, and whether the u16 sum of an index and the vertex count
\* overflows.  Ids are the keys of the map, counted from 0.
add_mesh(self, mesh_vertices, mesh_indices) ==
  LET before_count_vertices == Len(self.vertex_storage)
      before_count_indexes  == Len(self.index_storage)
      n     == Len(mesh_vertices)
      id    == Cardinality(DOMAIN self.map)
      bad   == FirstOutOfBounds(mesh_indices, n)
      moved == OffsetIndices(mesh_indices, AsU16(before_count_vertices))
      vs    == self.vertex_storage \o mesh_vertices
      is    == self.index_storage \o moved.val
  IN  IF before_count_vertices + n > U16 - 1
      THEN [result |-> [tag |-> "Err", error |-> "MaxVerticesExceeded"],
            overflow |-> FALSE, self |-> self]
      ELSE IF bad # -1
      THEN [result |-> [tag |-> "Err", error |-> "IndexOutOfBounds",
                        index |-> bad],
            overflow |-> FALSE, self |-> self]
      ELSE [result |-> [tag |-> "Ok", id |-> id],
            overflow |-> moved.overflow,
            self |-> [map |-> Insert(self.map, id,
                                     << before_count_vertices, Len(vs),
                                        before_count_indexes, Len(is) >>),
                      vertex_storage |-> vs,
                      index_storage |-> is]]

\* MeshStorage::get_mesh: the vertices and the indices stored for mesh_id.
get_mesh(self, mesh_id) ==
  IF mesh_id \in DOMAIN self.map
  THEN LET range == self.map[mesh_id]
       IN  [tag |-> "Some",
            vertices |-> SubSeq(self.vertex_storage, range[1] + 1, range[2]),
            indices  |-> SubSeq(self.index_storage, range[3] + 1, range[4])]
  ELSE [tag |-> "None"]

Self == [map |-> map, vertex_storage |-> vertex_storage,
         index_storage |-> index_storage]

InitStorage ==
  /\ ShapeIdle
  /\ call_args = NoCall /\ call_result = NoResult
  /\ MeshStorage_new
  /\ InstanceStorage_new
  /\ App_new

\* A caller offers a mesh to the storage.
AddMesh ==
  /\ pc = "idle"
  /\ adds < MaxAdds
  /\ \E mesh \in Meshes :
       LET done == add_mesh(Self, mesh.vertices, mesh.indices)
       IN  /\ call_args' = [fn |-> "add_mesh", vertices |-> mesh.vertices,
                                              indices |-> mesh.indices]
           /\ \E outcome \in Outcomes(done.overflow) :
                IF outcome = "panic"
                THEN /\ call_result' = [tag |-> "Panic"]
                     /\ UNCHANGED << overflow_checks, map, vertex_storage,
                                     index_storage, returned >>
                ELSE /\ call_result' = done.result
                     /\ returned' = IF done.result.tag = "Ok"
                                    THEN Append(returned,
                                                [id |-> done.result.id,
                                                 vertices |-> mesh.vertices,
                                                 indices |-> mesh.indices])
                                    ELSE returned
                     /\ map' = done.self.map
                     /\ vertex_storage' = done.self.vertex_storage
                     /\ index_storage' = done.self.index_storage
                     /\ overflow_checks' = Checks(outcome)
  /\ adds' = adds + 1
  /\ UNCHANGED << faces, face_joins, empty_edge, fuel, pc, face_index_start,
                  vertices, indices, start, face_i, join, i, j, i_up, step,
                  result, instance_vars, app_vars >>

NextStorage == AddMesh

SpecStorage == InitStorage /\ [][NextStorage]_vars

\* -------------------------------------------------------- instance storage
\* The entity ids and the instances offered to an instance storage.
MaxEntity == 3

Instances == {"near", "far"}

\* InstanceStorage::get_instance: `self.data.get(*entity_id as usize)`.
get_instance(self_data, entity_id) ==
  IF entity_id < Len(self_data)
  THEN [tag |-> "Some", value |-> self_data[entity_id + 1]]
  ELSE [tag |-> "None"]

\* InstanceStorage::upsert_instance: the data after the call.
upsert_instance(self_data, entity_id, instance) ==
  IF entity_id < Len(self_data)
  THEN [self_data EXCEPT ![entity_id + 1] = instance]
  ELSE Append(self_data, instance)

InitInstance ==
  /\ ShapeIdle
  /\ call_args = NoCall /\ call_result = NoResult
  /\ MeshStorage_new
  /\ InstanceStorage_new
  /\ App_new

\* A caller upserts the instance of an entity.
UpsertInstance ==
  /\ pc = "idle"
  /\ \E entity_id \in 0..MaxEntity, instance \in Instances :
       /\ call_args' = [fn |-> "upsert_instance", entity_id |-> entity_id,
                                                  data |-> instance]
       /\ data' = upsert_instance(data, entity_id, instance)
       /\ latest' = Insert(latest, entity_id, instance)
  /\ UNCHANGED << call_result, shape_vars, storage_vars, app_vars >>

NextInstance == UpsertInstance

SpecInstance == InitInstance /\ [][NextInstance]_vars

\* ------------------------------------------------------------------ app
\* How many events are delivered to an App.
MaxEvents == 4

\* The hooks of a frame, in the order of the blocks of RedrawRequested.
FrameHooks ==
  << "before_input", "handle_input", "before_tick", "handle_tick",
     "after_tick", "before_render", "after_render" >>

\* The hook run on system during the event of number event.
Hook(hook, system, event) ==
  [hook |-> hook, system |-> system, event |-> event]

\* `for system in self.systems.iter_mut() { system.hook(&mut args); }`.
ForEach(hook, list, event) ==
  [n \in 1..Len(list) |-> Hook(hook, list[n], event)]

\* A variant that runs the hooks of a frame system by system.
FrameBySystem(list, event) ==
  [n \in 1..(Len(FrameHooks) * Len(list)) |->
     Hook(FrameHooks[((n - 1) % Len(FrameHooks)) + 1],
          list[((n - 1) \div Len(FrameHooks)) + 1], event)]

\* The seven blocks of RedrawRequested, each a loop over the systems.
Frame(list, event) ==
  [n \in 1..(Len(FrameHooks) * Len(list)) |->
     Hook(FrameHooks[((n - 1) \div Len(list)) + 1],
          list[((n - 1) % Len(list)) + 1], event)]

\* `while let Some(mut system) = self.systems.pop() { system.dispose(..) }`:
\* the systems are disposed from the last to the first.
DisposeAll(list, event) ==
  [n \in 1..Len(list) |-> Hook("dispose", list[Len(list) + 1 - n], event)]

InitApp ==
  /\ ShapeIdle
  /\ call_args = NoCall /\ call_result = NoResult
  /\ MeshStorage_new
  /\ InstanceStorage_new
  /\ App_new

\* The event name is delivered.
Deliver(name) ==
  /\ pc = "idle"
  /\ Len(delivered) < MaxEvents
  /\ delivered' = Append(delivered, name)
  /\ UNCHANGED << shape_vars, call_vars, storage_vars, instance_vars >>

\* App::resumed: an app that needs init runs before_start of every system
\* and is started; a started app does nothing.
Resumed ==
  /\ Deliver("resumed")
  /\ IF state = "NeedsInit"
     THEN /\ hooks' = hooks \o ForEach("before_start", systems,
                                       Len(delivered) + 1)
          /\ state' = "Started"
     ELSE UNCHANGED << hooks, state >>
  /\ UNCHANGED << systems, exiting >>

\* App::window_event, WindowEvent::CloseRequested | WindowEvent::Destroyed.
Shutdown ==
  /\ hooks' = hooks \o DisposeAll(systems, Len(delivered) + 1)
  /\ systems' = <<>>
  /\ exiting' = TRUE
  /\ UNCHANGED state

CloseRequested ==
  /\ Deliver("close_requested")
  /\ Shutdown

Destroyed ==
  /\ Deliver("destroyed")
  /\ Shutdown

\* App::window_event, WindowEvent::RedrawRequested.
RedrawRequested ==
  /\ Deliver("redraw_requested")
  /\ IF state = "Started"
     THEN hooks' = hooks \o Frame(systems, Len(delivered) + 1)
     ELSE UNCHANGED hooks
  /\ UNCHANGED << state, systems, exiting >>

NextApp ==
  \/ Resumed
  \/ RedrawRequested
  \/ CloseRequested
  \/ Destroyed

SpecApp == InitApp /\ [][NextApp]_vars

\* ------------------------------------------------------------- properties
\* The vertex counts of the first k faces of list together, and their
\* vertices and index counts.
RECURSIVE VertexCount(_, _)
VertexCount(list, k) ==
  IF k = 0 THEN 0 ELSE VertexCount(list, k - 1) + Len(list[k].vertices)

RECURSIVE AllVertices(_, _)
AllVertices(list, k) ==
  IF k = 0 THEN <<>> ELSE AllVertices(list, k - 1) \o list[k].vertices

RECURSIVE IndexCount(_, _)
IndexCount(list, k) ==
  IF k = 0 THEN 0 ELSE IndexCount(list, k - 1) + Len(list[k].indices)

\* The triangles of the first k joins of joins: l_n + h_n - 2 each.
RECURSIVE TriangleCount(_, _)
TriangleCount(joins, k) ==
  IF k = 0 THEN 0
  ELSE TriangleCount(joins, k - 1)
       + (Len(joins[k].edge_lower) + Len(joins[k].edge_higher) - 2)

\* The face loop is over and the call has not failed.
Merged == pc \in {"join", "stitch"} \/ result = "Ok"

\* C1: once the faces are merged, and so in every mesh Shape3::new returns,
\* the vertex buffer is the concatenation of the faces' vertex sequences in
\* face-list order and its length the sum of their vertex counts; no step of
\* a join changes it.
C1_VerticesConcatenated ==
  Merged => /\ vertices = AllVertices(faces, Len(faces))
            /\ Len(vertices) = VertexCount(faces, Len(faces))

\* Shape3::new has returned a mesh of two different faces and of a join that
\* pushed triangles.
C1_Witness ==
  /\ result = "Ok"
  /\ Len(faces) = 2 /\ faces[1] # faces[2]
  /\ face_joins # <<>>
  /\ Len(indices) > IndexCount(faces, Len(faces))

\* C3: the stitcher appends l_n + h_n - 2 triangles for a join of non-empty
\* loops of l_n and h_n elements: behind the faces' indices the index buffer
\* holds three indices for each triangle of the joins stitched so far, and,
\* within a join, three for every pass but its first, whatever the positions
\* of the vertices and whichever counter a pass advances.
C3_TrianglesPerJoin ==
  /\ (pc = "join" \/ result = "Ok") =>
       Len(indices) = IndexCount(faces, Len(faces))
                      + 3 * TriangleCount(face_joins, Len(face_joins))
  /\ pc = "stitch" =>
       Len(indices) = IndexCount(faces, Len(faces))
                      + 3 * TriangleCount(face_joins, Len(face_joins) - 1)
                      + 3 * (IF step = 0 THEN 0 ELSE step - 1)

\* A join of two loops of 2 elements has been stitched: 2 triangles.
C3_Witness ==
  /\ pc = "join"
  /\ Len(face_joins) = 1
  /\ Len(face_joins[1].edge_lower) = 2 /\ Len(face_joins[1].edge_higher) = 2
  /\ Len(indices) = IndexCount(faces, Len(faces)) + 6

\* A face index or a local index of join jn that names no face of list, no
\* vertex of the face.
IllFormed(jn, list) ==
  \/ jn.lower_face_index >= Len(list)
  \/ jn.higher_face_index >= Len(list)
  \/ \E p \in 1..Len(jn.edge_lower) :
       jn.edge_lower[p] >= Len(list[jn.lower_face_index + 1].vertices)
  \/ \E p \in 1..Len(jn.edge_higher) :
       jn.edge_higher[p] >= Len(list[jn.higher_face_index + 1].vertices)

\* Two 2 x 2 grids and one join of them with two loops of 2 elements.
TwoGrids ==
  /\ faces = <<Grid22, Grid22>>
  /\ Len(face_joins) = 1
  /\ Len(face_joins[1].edge_lower) = 2 /\ Len(face_joins[1].edge_higher) = 2
  /\ ~IllFormed(face_joins[1], faces)
  /\ ~empty_edge

\* C10: two faces built as 2 x 2 grids (4 vertices, 6 indices each) and one
\* join with two loops of 2 elements assemble into a mesh of 8 vertices and
\* 18 indices, the 12 indices of the faces (those of the second raised by 4)
\* and then 6 of the stitch, every index below 8.
C10_TwoGridsJoined ==
  (TwoGrids /\ pc = "done") =>
    /\ result = "Ok"
    /\ Len(Grid22.vertices) = 4 /\ Len(Grid22.indices) = 6
    /\ Len(vertices) = 8
    /\ Len(indices) = 18
    /\ SubSeq(indices, 1, 6) = Grid22.indices
    /\ \A n \in 1..6 : indices[6 + n] = Grid22.indices[n] + 4
    /\ \A n \in 13..18 :
         indices[n] \in { 4 * face_joins[1].lower_face_index + face_joins[1].edge_lower[p]
                           : p \in 1..2 }
                   \cup { 4 * face_joins[1].higher_face_index + face_joins[1].edge_higher[p]
                           : p \in 1..2 }
    /\ \A n \in 1..18 : indices[n] < 8

\* The first join of main.rs, edge_px of the second grid to edge_nx of the
\* first, has been stitched and the mesh returned.
C10_Witness ==
  /\ TwoGrids /\ result = "Ok"
  /\ face_joins[1] = EdgeJoin_new(Grid22.edge_px, 1, Grid22.edge_nx, 0).join

\* C4: EdgeJoin::new returns an error exactly when the two face indices are
\* equal; for two different ones it returns a join that holds both edges and
\* both indices as given, empty edges too.
C4_EdgeJoinNew ==
  (call_args.fn = "EdgeJoin_new" /\ call_result # NoResult) =>
    /\ call_result.tag = "Err" <=>
         call_args.lower_face_index = call_args.higher_face_index
    /\ call_args.lower_face_index # call_args.higher_face_index =>
         /\ call_result.tag = "Ok"
         /\ call_result.join.edge_lower = call_args.edge_lower
         /\ call_result.join.lower_face_index = call_args.lower_face_index
         /\ call_result.join.edge_higher = call_args.edge_higher
         /\ call_result.join.higher_face_index = call_args.higher_face_index

\* EdgeJoin::new has returned a join of an empty and a non-empty edge.
C4_Witness ==
  /\ call_args.fn = "EdgeJoin_new"
  /\ call_result.tag = "Ok"
  /\ call_args.edge_lower = <<>> /\ call_args.edge_higher # <<>>
  /\ call_args.lower_face_index > call_args.higher_face_index

\* Every element of seq is below n.
AllBelow(seq, n) == \A p \in 1..Len(seq) : seq[p] < n

\* C6: in every Face that Face::from_function returns, every value of
\* indices, edge_px, edge_nx, edge_pz and edge_nz is less than the number of
\* vertices, for every grid of n_x >= 1 by n_z >= 1 vertices.
C6_FaceIndicesInRange ==
  (call_args.fn = "from_function" /\ call_result.tag = "Ok") =>
    LET face == call_result.face
    IN  /\ AllBelow(face.indices, Len(face.vertices))
        /\ AllBelow(face.edge_px, Len(face.vertices))
        /\ AllBelow(face.edge_nx, Len(face.vertices))
        /\ AllBelow(face.edge_pz, Len(face.vertices))
        /\ AllBelow(face.edge_nz, Len(face.vertices))

\* from_function has returned a grid of 3 by 2 vertices, with its 12 indices
\* and its four edges.
C6_Witness ==
  /\ call_args.fn = "from_function"
  /\ call_result.tag = "Ok"
  /\ ActualCount(call_args.domain_x, call_args.resolution[1]) = 3
  /\ ActualCount(call_args.domain_z, call_args.resolution[2]) = 2
  /\ Len(call_result.face.vertices) = 6
  /\ Len(call_result.face.indices) = 12
  /\ Len(call_result.face.edge_px) = 2 /\ Len(call_result.face.edge_pz) = 3

\* C7: Face::from_function returns an error if floor(length * resolution)
\* is 0 on the x axis or on the z axis, a reversed or empty domain included,
\* and returns a Face in every other case.
C7_ErrorIffNoVertices ==
  (call_args.fn = "from_function" /\ call_result # NoResult) =>
    IF \/ ActualCount(call_args.domain_x, call_args.resolution[1]) = 0
       \/ ActualCount(call_args.domain_z, call_args.resolution[2]) = 0
    THEN call_result.tag = "Err"
    ELSE call_result.tag = "Ok"

\* The indices a triangle of join jn may hold: the local indices of its two
\* loops, each raised by the number of vertices of the faces before its face.
JoinIndices(jn) ==
  { VertexCount(faces, jn.lower_face_index) + jn.edge_lower[p] :
      p \in 1..Len(jn.edge_lower) }
  \cup { VertexCount(faces, jn.higher_face_index) + jn.edge_higher[p] :
          p \in 1..Len(jn.edge_higher) }

\* C2: the index sequence Shape3::new returns begins with the indices of
\* each face k in face-list order, each raised by the sum of the vertex
\* counts of the faces before k, and goes on with the triangles of each join
\* in join-list order, made of that join's loops, and with nothing else.
C2_IndexLayout ==
  result = "Ok" =>
    LET base == IndexCount(faces, Len(faces))
    IN  /\ Len(indices) = base + 3 * TriangleCount(face_joins, Len(face_joins))
        /\ \A k \in 1..Len(faces) : \A n \in 1..Len(faces[k].indices) :
             indices[IndexCount(faces, k - 1) + n]
               = faces[k].indices[n] + VertexCount(faces, k - 1)
        /\ \A m \in 1..Len(face_joins) :
             \A n \in (3 * TriangleCount(face_joins, m - 1) + 1)
                      ..(3 * TriangleCount(face_joins, m)) :
               indices[base + n] \in JoinIndices(face_joins[m])

\* C5: a join list that holds a join with an empty edge makes Shape3::new
\* return an error, wherever in the list that join is and however many
\* well-formed joins come before it.
C5_EmptyEdgeIsError ==
  ( /\ empty_edge
    /\ pc = "done"
    /\ \A m \in 1..Len(face_joins) : ~IllFormed(face_joins[m], faces) )
  => result = "Err"

\* C8: face lists of more than 2^16 vertices together make Shape3::new
\* return an error, and no mesh of wrapped or truncated offsets or indices.
C8_TooManyVerticesIsError ==
  (pc = "done" /\ VertexCount(faces, Len(faces)) > U16) => result = "Err"

\* C9: a join that names a face the list does not have, or a vertex its face
\* does not have, makes Shape3::new return an error.
C9_IllFormedJoinIsError ==
  ( /\ pc = "done"
    /\ \E m \in 1..Len(face_joins) : IllFormed(face_joins[m], faces) )
  => result = "Err"

\* The grid of a call of from_function: n_x by n_z vertices, the vertex of
\* column gi and row gk at local index gi + gk * n_x.
CallNx == ActualCount(call_args.domain_x, call_args.resolution[1])

CallNz == ActualCount(call_args.domain_z, call_args.resolution[2])

Local(gi, gk) == gi + gk * CallNx

FaceReturned == call_args.fn = "from_function" /\ call_result.tag = "Ok"

LastLine(domain, resolution) ==
  RAdd(domain[1], RMul(R(ActualCount(domain, resolution) - 1),
                       Spacing(domain, resolution)))

\* C12: the grid of every face from_function returns spans the domain: its
\* first column is at x0 and its last, at x0 + (n_x - 1) * dx, at x1, and so
\* for the rows along z; the first vertex has the texture coordinate (0, 0)
\* of the lower corner of the domain and the last (1, 1) of the upper.
C12_GridSpansDomain ==
  FaceReturned =>
    LET face == call_result.face
    IN  /\ LastLine(call_args.domain_x, call_args.resolution[1])
             = call_args.domain_x[2]
        /\ LastLine(call_args.domain_z, call_args.resolution[2])
             = call_args.domain_z[2]
        /\ face.vertices[1].tex_coords = <<R(0), R(0)>>
        /\ face.vertices[Len(face.vertices)].tex_coords = <<R(1), R(1)>>

\* C13: an add_mesh call is Ok whenever the vertices stored and the new
\* ones are at most 2^16 together and every index of the mesh is one of its
\* vertices, and it returns MaxVerticesExceeded only when they are more
\* than 2^16 together.
C13_FullStorageAccepted ==
  [][ LET total == Len(vertex_storage) + Len(call_args'.vertices)
      IN  /\ ( /\ total <= U16
               /\ AllBelow(call_args'.indices, Len(call_args'.vertices)) )
             => call_result'.tag = "Ok"
          /\ call_result' = [tag |-> "Err", error |-> "MaxVerticesExceeded"]
             => total > U16 ]_vars

\* The model index of element k (from 0) of the lower and of the higher
\* loop of the join being stitched.
LowerAt(k) == face_index_start[join.lower_face_index + 1] + join.edge_lower[k + 1]

HigherAt(k) == face_index_start[join.higher_face_index + 1] + join.edge_higher[k + 1]

\* A pass of the stitch loop that ran to its end, and what it pushed.
StitchPassed == pc = "stitch" /\ pc' # "done"

Pushed == SubSeq(indices', Len(indices) + 1, Len(indices'))

\* C14: the first pass of a join (i + j = 0) pushes nothing; every later
\* pass pushes one triangle, (higher[j], lower[i], lower[i - 1]) when the
\* pass before advanced i and (higher[j], lower[i], higher[j - 1]) when it
\* advanced j, each element raised by face_index_start of its face.  i_up
\* tells which: every pass sets it exactly when it advances i.
C14_StitchTriangle ==
  [][ StitchPassed =>
        /\ i_up' <=> (i' = i + 1)
        /\ Pushed = IF i + j = 0 THEN <<>>
                    ELSE IF i_up THEN <<HigherAt(j), LowerAt(i), LowerAt(i - 1)>>
                    ELSE <<HigherAt(j), LowerAt(i), HigherAt(j - 1)>> ]_vars

\* A join of two loops of 2 elements has been stitched in three passes, of
\* which the first advanced j and the second i: the triangles
\* (higher[1], lower[0], higher[0]) and (higher[1], lower[1], lower[0]).
C14_Witness ==
  /\ pc = "join" /\ step = 3 /\ i = 1 /\ j = 2
  /\ SubSeq(indices, Len(indices) - 5, Len(indices))
       = << HigherAt(1), LowerAt(0), HigherAt(0),
            HigherAt(1), LowerAt(1), LowerAt(0) >>

\* The squared distance of the vertices at model indices a and b, which
\* orders pairs of vertices as their distance does.
Dist2(a, b) == Magnitude2(VSub(vertices[a + 1].position, vertices[b + 1].position))

\* C15: every pass advances exactly one of i and j, by one: j when i is at
\* the last element of the lower loop; else i when j is at the last element
\* of the higher loop; else j when lower[i] is at most as far from
\* higher[j + 1] as higher[j] is from lower[i + 1] (a tie advances j), and
\* i when it is farther.
C15_AdvanceRule ==
  [][ StitchPassed =>
        /\ \/ i' = i + 1 /\ j' = j
           \/ i' = i /\ j' = j + 1
        /\ IF i = Len(join.edge_lower) - 1 THEN j' = j + 1
           ELSE IF j = Len(join.edge_higher) - 1 THEN i' = i + 1
           ELSE (j' = j + 1) <=> RLe(Dist2(LowerAt(i), HigherAt(j + 1)),
                                     Dist2(HigherAt(j), LowerAt(i + 1))) ]_vars

\* The first pass of a join of two loops of 2 elements has advanced i:
\* lower[0] is farther from higher[1] than higher[0] is from lower[1].
C15_Witness ==
  /\ pc = "stitch" /\ step = 1 /\ i = 1 /\ j = 0
  /\ Len(join.edge_lower) = 2 /\ Len(join.edge_higher) = 2
  /\ ~RLe(Dist2(LowerAt(0), HigherAt(1)), Dist2(HigherAt(0), LowerAt(1)))

\* The elements (from 0) of the lower and of the higher loop that the pass
\* about to run reads: lower[i] and higher[j]; lower[i - 1] or higher[j - 1]
\* in "join", as i_up tells; lower[i + 1] and higher[j + 1] in the third
\* branch of "determine what counter to advance".
ReadsLower ==
  {i} \cup (IF i + j > 0 /\ i_up THEN {i - 1} ELSE {})
      \cup (IF i # Len(join.edge_lower) - 1 /\ j # Len(join.edge_higher) - 1
            THEN {i + 1} ELSE {})

ReadsHigher ==
  {j} \cup (IF i + j > 0 /\ ~i_up THEN {j - 1} ELSE {})
      \cup (IF i # Len(join.edge_lower) - 1 /\ j # Len(join.edge_higher) - 1
            THEN {j + 1} ELSE {})

\* C16: when pass t of a join begins, t in 0 .. l_n + h_n - 2, i + j = t,
\* 0 <= i <= l_n - 1 and 0 <= j <= h_n - 1; the pass reads lower[i - 1] only
\* when i >= 1, higher[j - 1] only when j >= 1, and lower[i + 1] and
\* higher[j + 1] only when i < l_n - 1 and j < h_n - 1: every element it
\* reads is in its loop.
C16_PointersInLoops ==
  pc = "stitch" =>
    LET l_n == Len(join.edge_lower)
        h_n == Len(join.edge_higher)
    IN  /\ step \in 0..(l_n + h_n - 2)
        /\ i + j = step
        /\ i \in 0..(l_n - 1) /\ j \in 0..(h_n - 1)
        /\ (i - 1 \in ReadsLower) => i >= 1
        /\ (j - 1 \in ReadsHigher) => j >= 1
        /\ (i + 1 \in ReadsLower \/ j + 1 \in ReadsHigher)
             => (i < l_n - 1 /\ j < h_n - 1)
        /\ ReadsLower \subseteq 0..(l_n - 1)
        /\ ReadsHigher \subseteq 0..(h_n - 1)

\* The last pass of a join of two loops of 2 elements is about to run, at
\* the last element of both loops, and to read lower[0] in "join".
C16_Witness ==
  /\ pc = "stitch" /\ step = 2 /\ i = 1 /\ j = 1 /\ i_up
  /\ Len(join.edge_lower) = 2 /\ Len(join.edge_higher) = 2
  /\ ReadsLower = {0, 1} /\ ReadsHigher = {1}

\* A join has been stitched to its end; the triangles it pushed, the last
\* l_n + h_n - 2 of the index buffer; the elements of triangle t of them;
\* and the model indices of the two loops.
Stitched == pc = "join" /\ face_joins # <<>>

StripLen == Len(join.edge_lower) + Len(join.edge_higher) - 2

StripTriangle(t) ==
  LET from == Len(indices) - 3 * StripLen + 3 * (t - 1)
  IN  << indices[from + 1], indices[from + 2], indices[from + 3] >>

Corners(t) == { StripTriangle(t)[n] : n \in 1..3 }

LowerLoop == { LowerAt(k) : k \in 0..(Len(join.edge_lower) - 1) }

HigherLoop == { HigherAt(k) : k \in 0..(Len(join.edge_higher) - 1) }

\* C17: the triangles of a stitched join are a connected strip.  Each has a
\* vertex of the lower and one of the higher loop.  Each after the first
\* holds the edge (higher[j], lower[i]) at which the pass before stood,
\* the first two elements of the triangle before it.  The first holds
\* lower[0] and higher[0], the last lower[l_n - 1] and higher[h_n - 1].
\* When l_n + h_n >= 3, every element of both loops is in a triangle.
C17_ConnectedStrip ==
  Stitched =>
    /\ \A t \in 1..StripLen :
         /\ Corners(t) \cap LowerLoop # {}
         /\ Corners(t) \cap HigherLoop # {}
         /\ StripTriangle(t)[1] \in HigherLoop
         /\ StripTriangle(t)[2] \in LowerLoop
    /\ \A t \in 2..StripLen :
         { StripTriangle(t - 1)[1], StripTriangle(t - 1)[2] } \subseteq Corners(t)
    /\ StripLen >= 1 =>
         /\ { LowerAt(0), HigherAt(0) } \subseteq Corners(1)
         /\ { LowerAt(Len(join.edge_lower) - 1),
              HigherAt(Len(join.edge_higher) - 1) } \subseteq Corners(StripLen)
         /\ LowerLoop \cup HigherLoop
              = UNION { Corners(t) : t \in 1..StripLen }

\* A lower loop of 3 elements and a higher loop of 1 have been stitched:
\* two triangles, which share higher[0] and lower[1].
C17_Witness ==
  /\ Stitched
  /\ Len(join.edge_lower) = 3 /\ Len(join.edge_higher) = 1
  /\ StripTriangle(1) = << HigherAt(0), LowerAt(1), LowerAt(0) >>
  /\ StripTriangle(2) = << HigherAt(0), LowerAt(2), LowerAt(1) >>

\* The invariant of a Face: every index and every edge element is one of
\* its vertices.
FaceInvariant(face) ==
  /\ AllBelow(face.indices, Len(face.vertices))
  /\ AllBelow(face.edge_px, Len(face.vertices))
  /\ AllBelow(face.edge_nx, Len(face.vertices))
  /\ AllBelow(face.edge_pz, Len(face.vertices))
  /\ AllBelow(face.edge_nz, Len(face.vertices))

\* The faces keep their invariant, their vertices can be counted in 16
\* bits, and the joins taken name faces of the list and vertices of them.
WellFormed ==
  /\ \A k \in 1..Len(faces) : FaceInvariant(faces[k])
  /\ VertexCount(faces, Len(faces)) < U16
  /\ \A q \in 1..Len(face_joins) : ~IllFormed(face_joins[q], faces)

\* The model indices of face k (from 1) of the list.
VertexRange(k) ==
  VertexCount(faces, k - 1) .. (VertexCount(faces, k) - 1)

\* C18: when every face keeps the Face invariant, the vertices of all faces
\* can be counted in 16 bits and every join names two faces of the list and
\* vertices of them, then in the mesh Shape3::new returns every index is
\* less than the vertex count; face_index_start[k] is the number of
\* vertices before face k and every index of face k, moved, is one of the
\* vertices of face k; and every index a join pushed is a vertex of the
\* lower or of the higher face of the join.
C18_IndicesInRange ==
  (result = "Ok" /\ WellFormed) =>
    /\ AllBelow(indices, Len(vertices))
    /\ \A k \in 1..Len(faces) :
         /\ face_index_start[k] = VertexCount(faces, k - 1)
         /\ \A n \in 1..Len(faces[k].indices) :
              indices[IndexCount(faces, k - 1) + n] \in VertexRange(k)
    /\ \A q \in 1..Len(face_joins) :
         \A n \in 1..(3 * (TriangleCount(face_joins, q)
                           - TriangleCount(face_joins, q - 1))) :
           indices[IndexCount(faces, Len(faces))
                   + 3 * TriangleCount(face_joins, q - 1) + n]
             \in VertexRange(face_joins[q].lower_face_index + 1)
                 \cup VertexRange(face_joins[q].higher_face_index + 1)

\* Shape3::new has returned the mesh of a 2 x 2 grid, a 1 x 1 grid and a join
\* of the one vertex of the second to an edge of the first.
C18_Witness ==
  /\ result = "Ok" /\ WellFormed
  /\ faces = <<Grid22, Grid11>>
  /\ face_joins = << EdgeJoin_new(<<0>>, 1, <<3, 1>>, 0).join >>
  /\ Len(indices) = 6 + 3

\* Triangle t (from 1) of the face returned, and its winding in the grid
\* plane: the sign of the cross product of its two sides from the first
\* corner, local index n being grid vertex (n % n_x, n \div n_x).
FaceTriangle(t) ==
  << call_result.face.indices[3 * t - 2], call_result.face.indices[3 * t - 1],
     call_result.face.indices[3 * t] >>

Winding(tri) ==
  LET gx(n) == n % CallNx
      gz(n) == n \div CallNx
  IN  Sign((gx(tri[2]) - gx(tri[1])) * (gz(tri[3]) - gz(tri[1]))
           - (gz(tri[2]) - gz(tri[1])) * (gx(tri[3]) - gx(tri[1])))

First(seq) == seq[1]

Last(seq) == seq[Len(seq)]

\* C20: in every face from_function returns, edge_nx and edge_px hold n_z
\* elements and edge_nz and edge_pz n_x, and the four close into one cycle
\* round the border: edge_nx ends where edge_pz begins, edge_pz where
\* edge_px begins, edge_px where edge_nz begins and edge_nz where edge_nx
\* begins.
C20_BorderCycle ==
  FaceReturned =>
    LET face == call_result.face
    IN  /\ Len(face.edge_nx) = CallNz /\ Len(face.edge_px) = CallNz
        /\ Len(face.edge_nz) = CallNx /\ Len(face.edge_pz) = CallNx
        /\ Last(face.edge_nx) = First(face.edge_pz)
        /\ Last(face.edge_pz) = First(face.edge_px)
        /\ Last(face.edge_px) = First(face.edge_nz)
        /\ Last(face.edge_nz) = First(face.edge_nx)

\* from_function has returned a grid of 2 by 3 vertices, whose border runs
\* 0, 2, 4, 5, 3, 1 and back to 0.
C20_Witness ==
  /\ FaceReturned /\ CallNx = 2 /\ CallNz = 3
  /\ call_result.face.edge_nx \o call_result.face.edge_pz
       \o call_result.face.edge_px \o call_result.face.edge_nz
       = <<0, 2, 4, 4, 5, 5, 3, 1, 1, 0>>

\* C21: every face from_function returns can form a triangle: its grid has
\* at least 2 vertices along each axis, its index list is not empty, and the
\* spacings dx and dz are finite.
C21_FaceHasTriangle ==
  FaceReturned =>
    /\ CallNx >= 2 /\ CallNz >= 2
    /\ call_result.face.indices # <<>>
    /\ IsFinite(Spacing(call_args.domain_x, call_args.resolution[1]))
    /\ IsFinite(Spacing(call_args.domain_z, call_args.resolution[2]))

\* The slopes a and b of a height function a x + b z + c.
SlopeOf(height) ==
  IF height \in {"flat", "level"} THEN <<R(0), R(0)>>
  ELSE <<Linear[height][1], Linear[height][2]>>

NormalReturned(heights) ==
  /\ call_args.fn = "approximate_normal" /\ call_result # NoResult
  /\ call_args.height \in heights

\* C22: for a height function a x + b z + c, approximate_normal returns the
\* unit vector of (-a, 1, -b) at every sample point: its two differences
\* estimate the slopes a and b exactly.
C22_NormalOfPlane ==
  NormalReturned(NormalHeights \ {"dome"}) =>
    call_result.value
      = Normalize(Vec3(RNeg(SlopeOf(call_args.height)[1]), R(1),
                       RNeg(SlopeOf(call_args.height)[2])))

\* A face has been returned for a height function that is constant, with
\* the up vector (0, 1, 0).
FlatFaceReturned ==
  FaceReturned /\ call_args.up = Y_UP /\ call_args.height = "flat"

\* C23: for a constant height function approximate_normal returns
\* (0, 1, 0) at every sample point, and every vertex of a face from_function
\* builds of one with up = (0, 1, 0) has the normal (0, 1, 0).
C23_FlatNormal ==
  /\ NormalReturned({"flat", "level"}) => call_result.value = Y_UP
  /\ FlatFaceReturned =>
       \A n \in 1..Len(call_result.face.vertices) :
         call_result.face.vertices[n].normal = Y_UP

\* from_function has returned a flat grid of 3 by 2 vertices with up =
\* (0, 1, 0), whose last vertex has the normal (0, 1, 0).
C23_Witness ==
  /\ FlatFaceReturned /\ CallNx = 3 /\ CallNz = 2
  /\ Len(call_result.face.vertices) = 6
  /\ call_result.face.vertices[6].normal = Vec3(R(0), R(1), R(0))

RotateReturned == call_args.fn = "rotate_to_axis" /\ call_result # NoResult

Zero3 == Vec3(R(0), R(0), R(0))

\* C24: for unit vectors axis and original, the matrix
\* rotate_to_axis(axis, original) takes original to axis; it is the identity
\* when axis = original, takes original to -original when axis = -original,
\* and takes the zero vector to the zero vector.
C24_RotatesOntoAxis ==
  RotateReturned =>
    LET axis     == Normalize(call_args.axis)
        original == Normalize(call_args.original)
    IN  /\ MatVec(call_result.value, original) = axis
        /\ axis = original => call_result.value = Identity3
        /\ axis = VNeg(original)
             => MatVec(call_result.value, original) = VNeg(original)
        /\ MatVec(call_result.value, Zero3) = Zero3

OrthogonalReturned == call_args.fn = "get_orthogonal" /\ call_result # NoResult

\* C25: the dot product of get_orthogonal(v) with v is 0, for every vector
\* v the function is called with.
C25_OrthogonalDot ==
  OrthogonalReturned => Dot(call_result.value, call_args.original) = R(0)

\* get_orthogonal has returned (4/5, -3/5, -7/5) for (3/5, 4/5, 0).
C25_Witness ==
  /\ OrthogonalReturned
  /\ call_args.original = Vec3(Rat(3, 5), Rat(4, 5), R(0))
  /\ call_result.value = Vec3(Rat(4, 5), Rat(-3, 5), Rat(-7, 5))

\* C26: get_orthogonal(v) is not the zero vector for any v but the zero
\* vector, so that the branch of rotate_to_axis for axis = -original has an
\* axis to normalize and returns a matrix of finite entries.
C26_OrthogonalNonZero ==
  /\ (OrthogonalReturned /\ call_args.original # Zero3)
       => call_result.value # Zero3
  /\ (RotateReturned
         /\ Normalize(call_args.axis) = VNeg(Normalize(call_args.original)))
       => \A c \in 1..3 : \A r \in 1..3 : IsFinite(call_result.value[c][r])

\* The errors of add_mesh.
MaxVerticesExceeded == [tag |-> "Err", error |-> "MaxVerticesExceeded"]

IndexOutOfBounds(index) ==
  [tag |-> "Err", error |-> "IndexOutOfBounds", index |-> index]

\* The mesh offered in a step has an index that is none of its vertices.
OffersBadIndex ==
  ~AllBelow(call_args'.indices, Len(call_args'.vertices))

VertexStart(id) == map[id][1]
VertexEnd(id)   == map[id][2]
IndexStart(id)  == map[id][3]
IndexEnd(id)    == map[id][4]

\* The indices of a mesh, each increased by before.
Increased(mesh_indices, before) ==
  [n \in 1..Len(mesh_indices) |-> mesh_indices[n] + before]

\* C28: after any sequence of add_mesh calls, the calls that stored a mesh
\* have returned the ids 0, 1, 2, ... in call order; the vertex ranges and
\* the index ranges of the map follow one another without gap or overlap in
\* id order, from 0 to the length of the storage; get_mesh(id) is the
\* vertices given to the call that returned id, and its indices, each
\* increased by the number of vertices stored before that call; and every
\* stored index of a mesh lies in the vertex range of that mesh.
C28_MeshesStoredInOrder ==
  LET count == Len(returned) IN
  /\ \A k \in 1..count : returned[k].id = k - 1
  /\ DOMAIN map = 0..(count - 1)
  /\ \A id \in DOMAIN map :
       /\ VertexStart(id) = (IF id = 0 THEN 0 ELSE VertexEnd(id - 1))
       /\ IndexStart(id) = (IF id = 0 THEN 0 ELSE IndexEnd(id - 1))
       /\ VertexStart(id) <= VertexEnd(id)
       /\ IndexStart(id) <= IndexEnd(id)
       /\ get_mesh(Self, id)
            = [tag |-> "Some",
               vertices |-> returned[id + 1].vertices,
               indices  |-> Increased(returned[id + 1].indices,
                                      VertexStart(id))]
       /\ \A p \in (IndexStart(id) + 1)..IndexEnd(id) :
            /\ VertexStart(id) <= index_storage[p]
            /\ index_storage[p] < VertexEnd(id)
  /\ Len(vertex_storage) = (IF count = 0 THEN 0 ELSE VertexEnd(count - 1))
  /\ Len(index_storage) = (IF count = 0 THEN 0 ELSE IndexEnd(count - 1))
  /\ get_mesh(Self, count) = [tag |-> "None"]

\* A point and then a triangle are stored, with a refused mesh among the
\* three calls, and the triangle is read back from the indices 1, 2, 3.
C28_Witness ==
  /\ adds = 3
  /\ Len(returned) = 2
  /\ returned[1].vertices = Point.vertices
  /\ returned[2].vertices = Triangle.vertices
  /\ call_result = [tag |-> "Ok", id |-> 1]
  /\ get_mesh(Self, 1).indices = <<1, 2, 3>>

\* C29: after any sequence of upserts, get_instance(id) is the instance of
\* the most recent upsert_instance(id, ..), for every id that was upserted,
\* and an upsert of one id leaves get_instance of every other id as it was.
C29_UpsertThenGet ==
  [][ /\ \A id \in DOMAIN latest' :
           get_instance(data', id) = [tag |-> "Some", value |-> latest'[id]]
      /\ \A id \in 0..MaxEntity :
           id # call_args'.entity_id
             => get_instance(data', id) = get_instance(data, id) ]_vars

\* The systems of an App.
Systems == {DEFAULT_SYSTEMS[n] : n \in DOMAIN DEFAULT_SYSTEMS}

\* The entries of the hook log for hook on system, and for any hook of a
\* frame on system.
Runs(hook, system) ==
  {p \in DOMAIN hooks : hooks[p].hook = hook /\ hooks[p].system = system}

IsFrameHook(hook) == \E r \in DOMAIN FrameHooks : FrameHooks[r] = hook

FrameRuns(system) ==
  {p \in DOMAIN hooks : IsFrameHook(hooks[p].hook) /\ hooks[p].system = system}

\* The place of a hook of a frame in the order of C30.
Rank(hook) == CHOOSE r \in DOMAIN FrameHooks : FrameHooks[r] = hook

\* The app was Started when the event of number e was delivered, and the
\* systems had not been disposed by then.
StartedBefore(e) == \E k \in 1..(e - 1) : delivered[k] = "resumed"

ShutBefore(e) ==
  \E k \in 1..(e - 1) : delivered[k] \in {"close_requested", "destroyed"}

\* The parts of C30 other than the number of runs of before_start:
\* before_start of a system runs before every frame hook of that system; a
\* frame hook runs only in a redraw of a started app; within one redraw the
\* hooks run in the order of FrameHooks, and each hook runs once on every
\* system not yet disposed; dispose of a system runs at most once, and no
\* hook of a system runs after its dispose.
HookOrder ==
  /\ \A system \in Systems :
       /\ \A q \in FrameRuns(system) :
            \E p \in Runs("before_start", system) : p < q
       /\ Cardinality(Runs("dispose", system)) <= 1
       /\ \A p \in Runs("dispose", system) :
            \A q \in DOMAIN hooks : hooks[q].system = system => q <= p
  /\ \A p \in DOMAIN hooks :
       IsFrameHook(hooks[p].hook)
         => /\ delivered[hooks[p].event] = "redraw_requested"
            /\ StartedBefore(hooks[p].event)
  /\ \A p, q \in DOMAIN hooks :
       /\ p < q
       /\ hooks[p].event = hooks[q].event
       /\ IsFrameHook(hooks[p].hook) /\ IsFrameHook(hooks[q].hook)
       => Rank(hooks[p].hook) <= Rank(hooks[q].hook)
  /\ \A e \in DOMAIN delivered :
       delivered[e] = "redraw_requested" /\ StartedBefore(e) /\ ~ShutBefore(e)
         => \A system \in Systems, r \in DOMAIN FrameHooks :
              Cardinality({p \in Runs(FrameHooks[r], system) :
                             hooks[p].event = e}) = 1

====
